---- MODULE Spec2Model ----
(***************************************************************************)
(* Model of resolve_deps.py: a linear pipeline that lists the service      *)
(* directory, derives one service name per file, parses each file's local  *)
(* imports with a regular expression, renders a Graphviz graph and writes  *)
(* it to map.dot.  Strings are TLA+ strings; a directory is a function     *)
(* from entry names to file contents.                                      *)
(***************************************************************************)
EXTENDS Integers, Sequences, FiniteSets, TLC

(***************************************************************************)
(* Bounds and input domains                                                *)
(***************************************************************************)

\* largest number of entries in the service directory
MaxFiles == 3

SERVICES_DIR == "../../src/services"

GRAPHVIZ_GRAPH_SETTINGS ==
  "\n    rankdir=LR;\n    overlap=false;\n    splines=true;\n" \o
  "    node [shape=box, style=\"rounded,filled\", fillcolor=lightblue, fontname=\"Arial\"];\n" \o
  "    edge [fontname=\"Arial\", fontsize=10];\n"

\* entry names the directory may hold
Entries == {"a.ts", "b.ts", "c.ts", "a.test.ts", "a.ts.ts", "d.tsx", "README.md"}

\* entries whose text the pipeline can come to read
ReadCandidates == {"a.ts", "b.ts", "c.ts"}

T_none == "export const x = 1;\n"

T_one == "import { a } from './a'\n"

T_dup ==
  "import {c} from './c'\nimport { b } from './b'\nimport b from \"./b.ts\"\n" \o
  "import {c} from './c'\nimport { b } from './b'\n"

T_ext ==
  "import Z from 'external-package'\nimport { y } from '../b'\n" \o
  "import q from \"@scope/b\"\nimport r from '/abs/b'\n"

T_mix == "import {b} from './b'\nimport x from './zzz'\nimport w from './c.tsx'\n"

\* a file that exists and can be read
FileOf(t) == [ok |-> TRUE, text |-> t]

\* a file that exists and cannot be read
Unreadable == [ok |-> FALSE, text |-> ""]

Texts == {T_none, T_one, T_dup, T_ext, T_mix}

\* no output file before the run
Absent == [ok |-> FALSE, text |-> ""]

OldOutputs == {Absent, FileOf("digraph OLD {}")}

(***************************************************************************)
(* str methods                                                             *)
(***************************************************************************)

\* s.endswith(suffix)
EndsWith(s, suffix) ==
  /\ Len(s) >= Len(suffix)
  /\ SubSeq(s, Len(s) - Len(suffix) + 1, Len(s)) = suffix

RECURSIVE Replace(_, _, _)
\* s.replace(old, new): every non-overlapping occurrence, left to right
Replace(s, old, new) ==
  IF Len(s) < Len(old) THEN s
  ELSE IF SubSeq(s, 1, Len(old)) = old
       THEN new \o Replace(SubSeq(s, Len(old) + 1, Len(s)), old, new)
       ELSE SubSeq(s, 1, 1) \o Replace(SubSeq(s, 2, Len(s)), old, new)

(***************************************************************************)
(* The import pattern, matched as re does: positions are 1-based, 0 is     *)
(* "no match".  No piece of the pattern can give back characters to the    *)
(* next one (adjacent pieces accept disjoint characters), so greedy        *)
(* matching without backtracking is exact.                                 *)
(***************************************************************************)

\* \s, on the ASCII characters a TLA+ string can hold
SpaceChars == {" ", "\t", "\n", "\r", "\f"}

\* \w, on ASCII
WordChars ==
  {"a","b","c","d","e","f","g","h","i","j","k","l","m","n","o","p","q","r","s",
   "t","u","v","w","x","y","z","A","B","C","D","E","F","G","H","I","J","K","L",
   "M","N","O","P","Q","R","S","T","U","V","W","X","Y","Z","0","1","2","3","4",
   "5","6","7","8","9","_"}

\* ['"]
QuoteChars == {"'", "\""}

\* a literal at position p
Lit(s, p, lit) ==
  IF p = 0 \/ p + Len(lit) - 1 > Len(s) THEN 0
  ELSE IF SubSeq(s, p, p + Len(lit) - 1) = lit THEN p + Len(lit) ELSE 0

\* the position after the longest run of characters of cls starting at p
SpanIn(s, p, cls) ==
  CHOOSE q \in p..(Len(s) + 1) :
    /\ q = Len(s) + 1 \/ SubSeq(s, q, q) \notin cls
    /\ \A r \in p..(q - 1) : SubSeq(s, r, r) \in cls

\* the position after the longest run of characters outside cls starting at p
SpanNotIn(s, p, cls) ==
  CHOOSE q \in p..(Len(s) + 1) :
    /\ q = Len(s) + 1 \/ SubSeq(s, q, q) \in cls
    /\ \A r \in p..(q - 1) : SubSeq(s, r, r) \notin cls

\* cls+ at p
Plus(s, p, cls) ==
  IF p = 0 THEN 0 ELSE IF SpanIn(s, p, cls) > p THEN SpanIn(s, p, cls) ELSE 0

\* one character of cls at p
One(s, p, cls) ==
  IF p = 0 \/ p > Len(s) THEN 0
  ELSE IF SubSeq(s, p, p) \in cls THEN p + 1 ELSE 0

\* (?:{[^}]*}|\w+) at p
binding_form(s, p) ==
  IF p = 0 THEN 0
  ELSE IF Lit(s, p, "{") # 0
       THEN Lit(s, SpanNotIn(s, p + 1, {"}"}), "}")
       ELSE Plus(s, p, WordChars)

\* a mutation: the pattern without its \.\/
path_prefix_optional(s, p) == p

\* \.\/ at p
path_prefix(s, p) == Lit(s, p, "./")

\* import_pattern at position i: [ok, group, end]
import_pattern_match(s, i) ==
  LET p1 == Plus(s, Lit(s, i, "import"), SpaceChars)
      p2 == Plus(s, binding_form(s, p1), SpaceChars)
      p3 == Plus(s, Lit(s, p2, "from"), SpaceChars)
      g0 == path_prefix(s, One(s, p3, QuoteChars))
      g1 == IF g0 = 0 THEN 0
            ELSE IF SpanNotIn(s, g0, QuoteChars) > g0
                 THEN SpanNotIn(s, g0, QuoteChars) ELSE 0
      e  == One(s, g1, QuoteChars)
  IN IF e = 0 THEN [ok |-> FALSE, group |-> "", end |-> 0]
     ELSE [ok |-> TRUE, group |-> SubSeq(s, g0, g1 - 1), end |-> e]

RECURSIVE findall(_, _)
\* import_pattern.findall(content), scanning from position i: the leftmost
\* match at or after i, then the scan resumes where that match ended
findall(s, i) ==
  LET starts == {j \in i..Len(s) : import_pattern_match(s, j).ok}
  IN IF starts = {} THEN <<>>
     ELSE LET j == CHOOSE j \in starts : \A k \in starts : j <= k
              m == import_pattern_match(s, j)
          IN <<m.group>> \o findall(s, m.end)

(***************************************************************************)
(* State                                                                   *)
(***************************************************************************)

VARIABLES
  files,          \* the service directory: entry name -> FileOf(text) or Unreadable
  out,            \* map.dot: FileOf(text) or Absent
  out_before,     \* the content of map.dot before the run
  pc,             \* the statement of main() that runs next, "done" or "error"
  err,            \* the I/O step that raised, "" while none has
  ts_files,       \* main's ts_files
  service_names,  \* main's service_names
  deps,           \* main's deps: <<[name, dependencies]>> in insertion order
  graph,          \* main's graph: the pieces of text appended, in order
  opened,         \* every path passed to open(_, 'r'), in order
  writes          \* how many times the writer opened the output file

vars == <<files, out, out_before, pc, err, ts_files, service_names, deps,
          graph, opened, writes>>

(***************************************************************************)
(* The file system                                                         *)
(***************************************************************************)

\* every order os.listdir may return a directory's entries in
Orderings(S) ==
  {q \in [1..Cardinality(S) -> S] : \A i, j \in 1..Cardinality(S) : q[i] = q[j] => i = j}

\* the path of entry e of the service directory
PathOf(e) == SERVICES_DIR \o "/" \o e

\* open(path, 'r') followed by read() succeeds
CanRead(path) ==
  \E e \in DOMAIN files : PathOf(e) = path /\ files[e].ok

\* what read() returns for a path that CanRead
ReadText(path) == files[CHOOSE e \in DOMAIN files : PathOf(e) = path].text

(***************************************************************************)
(* The pipeline's functions                                                *)
(***************************************************************************)

\* a mutation: the '.test.ts' exclusion forgotten
get_ts_files_with_tests(listing) ==
  SelectSeq(listing, LAMBDA f : EndsWith(f, ".ts"))

\* the comprehension of get_ts_files over os.listdir's result
get_ts_files(listing) ==
  SelectSeq(listing, LAMBDA f : EndsWith(f, ".ts") /\ ~EndsWith(f, ".test.ts"))

get_service_names(ts) ==
  [k \in 1..Len(ts) |-> Replace(ts[k], ".ts", "")]

\* matches = import_pattern.findall(content), for every content a file can have
matches_of == [content \in Texts |-> findall(content, 1)]

\* get_service_dependencies on a readable file
get_service_dependencies(service_file) ==
  LET matches == matches_of[ReadText(service_file)]
  IN [k \in 1..Len(matches) |-> Replace(matches[k], ".ts", "")]

\* d.keys()
Keys(d) == {d[k].name : k \in 1..Len(d)}

\* d[key] = value on a dict kept in insertion order
DictSet(d, key, value) ==
  IF key \in Keys(d)
  THEN [k \in 1..Len(d) |->
          IF d[k].name = key THEN [name |-> key, dependencies |-> value] ELSE d[k]]
  ELSE Append(d, [name |-> key, dependencies |-> value])

\* d[key]
DictGet(d, key) == d[CHOOSE k \in 1..Len(d) : d[k].name = key].dependencies

RECURSIVE resolve_deps_skipping_from(_, _, _, _)
resolve_deps_skipping_from(names, i, d, log) ==
  IF i > Len(names) THEN [ok |-> TRUE, deps |-> d, opened |-> log]
  ELSE LET path == SERVICES_DIR \o "/" \o names[i] \o ".ts"
       IN resolve_deps_skipping_from(names, i + 1,
            IF CanRead(path) THEN DictSet(d, names[i], get_service_dependencies(path))
            ELSE d,
            Append(log, path))

\* a mutation: a file that cannot be read is skipped and the run goes on
resolve_deps_skipping(names) == resolve_deps_skipping_from(names, 1, <<>>, <<>>)

RECURSIVE resolve_deps_from(_, _, _, _)
\* the loop of resolve_deps from its i-th iteration: [ok, deps, opened]
resolve_deps_from(names, i, d, log) ==
  IF i > Len(names) THEN [ok |-> TRUE, deps |-> d, opened |-> log]
  ELSE LET path == SERVICES_DIR \o "/" \o names[i] \o ".ts"
       IN IF ~CanRead(path)
          THEN [ok |-> FALSE, deps |-> d, opened |-> Append(log, path)]
          ELSE resolve_deps_from(names, i + 1,
                                 DictSet(d, names[i], get_service_dependencies(path)),
                                 Append(log, path))

resolve_deps(names) == resolve_deps_from(names, 1, <<>>, <<>>)

\* hashlib.md5(name.encode()).hexdigest()[:8]
md5_hexdigest8(name) ==
  CASE name = "a" -> "0cc175b9"
    [] name = "b" -> "92eb5ffe"
    [] name = "c" -> "4a8a08f0"
    [] name = "a.test" -> "86564c7c"
    [] name = "zzz" -> "f3abb86b"
    [] name = "cx" -> "0bdff809"

\* '_' + the short hash
hashed_name(name) == "_" \o md5_hexdigest8(name)

NodeLine(name) ==
  [kind |-> "node", from |-> hashed_name(name), to |-> name,
   text |-> "    " \o hashed_name(name) \o " [label=\"" \o name \o "\"];\n"]

EdgeLine(service_hash, dependency_hash) ==
  [kind |-> "edge", from |-> service_hash, to |-> dependency_hash,
   text |-> "    " \o service_hash \o " -> " \o dependency_hash \o "\n"]

TextLine(k, t) == [kind |-> k, from |-> "", to |-> "", text |-> t]

RECURSIVE EdgesOf_unchecked(_, _, _, _)
\* a mutation: the 'if dependency in hash_map' test dropped, the hash computed
EdgesOf_unchecked(name, dependencies, j, known) ==
  IF j > Len(dependencies) THEN <<>>
  ELSE <<EdgeLine(hashed_name(name), hashed_name(dependencies[j]))>>
       \o EdgesOf_unchecked(name, dependencies, j + 1, known)

RECURSIVE EdgesOf_dedup(_, _, _, _)
\* a mutation: an edge is emitted for the first occurrence of a dependency only
EdgesOf_dedup(name, dependencies, j, known) ==
  IF j > Len(dependencies) THEN <<>>
  ELSE (IF /\ dependencies[j] \in known
           /\ \A i \in 1..(j - 1) : dependencies[i] # dependencies[j]
        THEN <<EdgeLine(hashed_name(name), hashed_name(dependencies[j]))>>
        ELSE <<>>)
       \o EdgesOf_dedup(name, dependencies, j + 1, known)

RECURSIVE EdgesOf(_, _, _, _)
\* the inner loop over one service's dependencies, from the j-th on
EdgesOf(name, dependencies, j, known) ==
  IF j > Len(dependencies) THEN <<>>
  ELSE (IF dependencies[j] \in known
        THEN <<EdgeLine(hashed_name(name), hashed_name(dependencies[j]))>>
        ELSE <<>>)
       \o EdgesOf(name, dependencies, j + 1, known)

RECURSIVE AllEdges(_, _)
\* the loop over deps.items(), from the k-th item on
AllEdges(d, k) ==
  IF k > Len(d) THEN <<>>
  ELSE EdgesOf(d[k].name, d[k].dependencies, 1, Keys(d)) \o AllEdges(d, k + 1)

RECURSIVE NodesWithEdges(_, _)
NodesWithEdges(d, k) ==
  IF k > Len(d) THEN <<>>
  ELSE <<NodeLine(d[k].name)>>
       \o EdgesOf(d[k].name, d[k].dependencies, 1, Keys(d))
       \o NodesWithEdges(d, k + 1)

\* a mutation: one loop, each service's edges right after its node
generate_graphviz_graph_interleaved(d) ==
  <<TextLine("open", "digraph G {\n"), TextLine("settings", GRAPHVIZ_GRAPH_SETTINGS)>>
  \o NodesWithEdges(d, 1)
  \o <<TextLine("close", "}")>>

\* the pieces generate_graphviz_graph appends to graph, in order
generate_graphviz_graph(d) ==
  <<TextLine("open", "digraph G {\n"), TextLine("settings", GRAPHVIZ_GRAPH_SETTINGS)>>
  \o [k \in 1..Len(d) |-> NodeLine(d[k].name)]
  \o AllEdges(d, 1)
  \o <<TextLine("close", "}")>>

RECURSIVE Render(_, _)
\* the string the pieces add up to
Render(g, k) == IF k > Len(g) THEN "" ELSE g[k].text \o Render(g, k + 1)

(***************************************************************************)
(* main(), one action per statement                                        *)
(***************************************************************************)

\* the directories of at most MaxFiles entries
Directories ==
  UNION {[S -> {FileOf(t) : t \in Texts} \cup {Unreadable}] :
           S \in {S \in SUBSET Entries : Cardinality(S) <= MaxFiles}}

Init ==
  /\ files \in {d \in Directories :
                  \A e \in DOMAIN d : e \notin ReadCandidates => d[e] = FileOf(T_none)}
  /\ out \in OldOutputs
  /\ out_before = out
  /\ pc = "get_ts_files"
  /\ err = ""
  /\ ts_files = <<>>
  /\ service_names = <<>>
  /\ deps = <<>>
  /\ graph = <<>>
  /\ opened = <<>>
  /\ writes = 0

\* ts_files = get_ts_files(SERVICES_DIR)
main_get_ts_files ==
  /\ pc = "get_ts_files"
  /\ \/ /\ \E listing \in Orderings(DOMAIN files) : ts_files' = get_ts_files(listing)
        /\ pc' = "get_service_names"
        /\ err' = err
     \/ /\ pc' = "error"
        /\ err' = "listdir"
        /\ ts_files' = ts_files
  /\ UNCHANGED <<files, out, out_before, service_names, deps, graph, opened, writes>>

\* service_names = get_service_names(ts_files)
main_get_service_names ==
  /\ pc = "get_service_names"
  /\ service_names' = get_service_names(ts_files)
  /\ pc' = "resolve_deps"
  /\ UNCHANGED <<files, out, out_before, err, ts_files, deps, graph, opened, writes>>

\* deps = resolve_deps(service_names)
main_resolve_deps ==
  /\ pc = "resolve_deps"
  /\ LET r == resolve_deps(service_names)
     IN /\ opened' = r.opened
        /\ IF r.ok
           THEN deps' = r.deps /\ pc' = "generate_graphviz_graph" /\ err' = err
           ELSE deps' = deps /\ pc' = "error" /\ err' = "read"
  /\ UNCHANGED <<files, out, out_before, ts_files, service_names, graph, writes>>

\* graph = generate_graphviz_graph(deps)
main_generate_graphviz_graph ==
  /\ pc = "generate_graphviz_graph"
  /\ graph' = generate_graphviz_graph(deps)
  /\ pc' = "save_graphviz_graph"
  /\ UNCHANGED <<files, out, out_before, err, ts_files, service_names, deps, opened, writes>>

\* open(output_file, 'w') and file.write(graph), the open having succeeded
save_graphviz_graph(g) ==
  out' = FileOf(Render(g, 1))

\* save_graphviz_graph(graph, "map.dot")
main_save_graphviz_graph ==
  /\ pc = "save_graphviz_graph"
  /\ writes' = writes + 1
  /\ \/ /\ save_graphviz_graph(graph)
        /\ pc' = "done"
        /\ err' = err
     \/ /\ out' = out
        /\ pc' = "error"
        /\ err' = "write"
  /\ UNCHANGED <<files, out_before, ts_files, service_names, deps, graph, opened>>

Next ==
  \/ main_get_ts_files
  \/ main_get_service_names
  \/ main_resolve_deps
  \/ main_generate_graphviz_graph
  \/ main_save_graphviz_graph

Spec == Init /\ [][Next]_vars

(***************************************************************************)
(* Vocabulary of the properties                                            *)
(***************************************************************************)

\* s is some prefix followed by suffix
HasSuffix(s, suffix) == \E n \in 0..Len(s) : SubSeq(s, 1, n) \o suffix = s

\* s without a trailing suffix, s itself when it has none
StripSuffix(s, suffix) ==
  IF HasSuffix(s, suffix) THEN SubSeq(s, 1, Len(s) - Len(suffix)) ELSE s

\* sub occurs somewhere in s
Contains(s, sub) ==
  \E i \in 1..(Len(s) - Len(sub) + 1) : SubSeq(s, i, i + Len(sub) - 1) = sub

Range(q) == {q[k] : k \in 1..Len(q)}

\* how many times x occurs in q
Count(q, x) == Cardinality({k \in 1..Len(q) : q[k] = x})

\* the entries the enumerator is to return
Qualifying == {e \in DOMAIN files : HasSuffix(e, ".ts") /\ ~HasSuffix(e, ".test.ts")}

\* get_ts_files has returned
Enumerated == pc # "get_ts_files" /\ err # "listdir"

\* get_service_names has returned
Named == Enumerated /\ pc # "get_service_names"

\* resolve_deps has returned
Resolved == Named /\ pc # "resolve_deps" /\ err # "read"

\* generate_graphviz_graph has returned
Generated == Resolved /\ pc # "generate_graphviz_graph"

\* the text of the file resolve_deps parsed for service name
TextOf(name) == ReadText(SERVICES_DIR \o "/" \o name \o ".ts")

\* the texts none of whose quoted paths starts with './'
NonLocalTexts == {t \in Texts : ~Contains(t, "'./") /\ ~Contains(t, "\"./")}

\* the identifier the graph declares for the node labelled name
NodeId(name) ==
  graph[CHOOSE k \in 1..Len(graph) : graph[k].kind = "node" /\ graph[k].to = name].from

\* how many lines of kind k the graph has
Lines(k) == {i \in 1..Len(graph) : graph[i].kind = k}

\* how many edge declarations lead from S's node to D's node
EdgeCount(S, D) ==
  Cardinality({i \in Lines("edge") :
                 graph[i].from = NodeId(S) /\ graph[i].to = NodeId(D)})

(***************************************************************************)
(* C1: extracting the service name of a file name that ends in '.ts' and   *)
(* re-appending '.ts' gives the file name back.                            *)
(***************************************************************************)
C1_RoundTrip ==
  Named => /\ Len(service_names) = Len(ts_files)
           /\ \A k \in 1..Len(ts_files) : service_names[k] \o ".ts" = ts_files[k]

(***************************************************************************)
(* C2: the enumerator returns exactly the directory's entries that end in  *)
(* '.ts' and not in '.test.ts', each once.                                 *)
(***************************************************************************)
C2_Enumerator ==
  Enumerated => /\ Range(ts_files) = Qualifying
                /\ Len(ts_files) = Cardinality(Qualifying)

C2_Witness ==
  /\ pc = "get_service_names"
  /\ DOMAIN files = {"b.ts", "a.test.ts", "d.tsx"}
  /\ ts_files = <<"b.ts">>

(***************************************************************************)
(* C3: the graph has an edge from S's node to D's node exactly when D is   *)
(* in S's dependency list and D is a key of the map; no edge has an        *)
(* endpoint that is not the node of a key.                                 *)
(***************************************************************************)
C3_EdgeIff ==
  Generated =>
    /\ \A S \in Keys(deps) : \A D \in Keys(deps) :
         (D \in Range(DictGet(deps, S))) <=> (EdgeCount(S, D) > 0)
    /\ \A i \in Lines("edge") :
         /\ graph[i].from \in {NodeId(S) : S \in Keys(deps)}
         /\ graph[i].to \in {NodeId(D) : D \in Keys(deps)}

C3_Witness ==
  /\ Generated
  /\ Keys(deps) = {"a", "b"}
  /\ DictGet(deps, "a") = <<"b", "zzz", "cx">>
  /\ DictGet(deps, "b") = <<>>
  /\ Cardinality(Lines("edge")) = 1
  /\ EdgeCount("a", "b") = 1

(***************************************************************************)
(* C4: each element the parser appends is the captured path without a      *)
(* trailing '.ts', and the captured path itself when it has none.          *)
(***************************************************************************)
C4_TrailingStrip ==
  Resolved =>
    \A k \in 1..Len(deps) :
      LET P == matches_of[TextOf(deps[k].name)]
      IN deps[k].dependencies = [j \in 1..Len(P) |-> StripSuffix(P[j], ".ts")]

(***************************************************************************)
(* C5: a file none of whose quoted paths starts with './' parses to the    *)
(* empty dependency sequence, and parsing it does not fail the run.        *)
(***************************************************************************)
C5_NonLocalIgnored ==
  /\ Resolved =>
       \A k \in 1..Len(deps) :
         TextOf(deps[k].name) \in NonLocalTexts => deps[k].dependencies = <<>>
  /\ (pc = "error" /\ err = "read") => ~CanRead(opened[Len(opened)])

C5_Witness ==
  /\ Resolved
  /\ \E k \in 1..Len(deps) :
       /\ TextOf(deps[k].name) = T_ext
       /\ Contains(T_ext, "import")
       /\ T_ext \in NonLocalTexts
       /\ deps[k].dependencies = <<>>

\* the local imports of qualifying files that name a qualifying file
LocalImports ==
  UNION {{<<e, j>> : j \in {j \in 1..Len(matches_of[files[e].text]) :
                             \E f \in Qualifying :
                               StripSuffix(matches_of[files[e].text][j], ".ts")
                                 = StripSuffix(f, ".ts")}} :
         e \in {e \in Qualifying : files[e].ok}}

(***************************************************************************)
(* C6: when every qualifying file is readable no read fails the run, and   *)
(* the graph has one node per qualifying file, labelled with the file name *)
(* minus its extension, none for a test file, and one edge per local       *)
(* import naming a qualifying file.                                        *)
(***************************************************************************)
C6_EndToEnd ==
  /\ (pc = "error" /\ err = "read") => \E e \in Qualifying : ~files[e].ok
  /\ Generated =>
       /\ Cardinality(Lines("node")) = Cardinality(Qualifying)
       /\ \A e \in Qualifying :
            Cardinality({i \in Lines("node") : graph[i].to = StripSuffix(e, ".ts")}) = 1
       /\ Cardinality(Lines("edge")) = Cardinality(LocalImports)

(***************************************************************************)
(* C7: a failed enumeration or read ends the run at once in the error      *)
(* state, with no later file read, the writer not run and map.dot as it    *)
(* was; no failed read goes unnoticed; a run in which no I/O step failed   *)
(* ends with map.dot holding the generated graph text.                     *)
(***************************************************************************)
C7_NoPartialSuccess ==
  /\ pc = "error" => ~ENABLED Next
  /\ (pc = "error" /\ err \in {"listdir", "read"}) =>
       out = out_before /\ writes = 0 /\ graph = <<>>
  /\ (pc = "error" /\ err = "listdir") => opened = <<>>
  /\ (pc = "error" /\ err = "read") =>
       /\ Len(opened) >= 1
       /\ ~CanRead(opened[Len(opened)])
  /\ \A k \in 1..Len(opened) :
       ~CanRead(opened[k]) => pc = "error" /\ err = "read" /\ k = Len(opened)
  /\ pc = "done" => err = "" /\ writes = 1 /\ out = FileOf(Render(graph, 1))
  /\ err = "" <=> pc # "error"

C7_Witness ==
  /\ pc = "error"
  /\ err = "read"
  /\ Len(service_names) = 3
  /\ Len(opened) = 2
  /\ out_before = FileOf("digraph OLD {}")
  /\ out = out_before

(***************************************************************************)
(* C8: the graph text is the digraph declaration, then the style preamble  *)
(* once, then one node declaration per key in the map's order, then the    *)
(* edge declarations, then the closing brace.                              *)
(***************************************************************************)
C8_EmissionOrder ==
  Generated =>
    LET n == Len(deps)
        m == Len(graph)
    IN /\ m >= n + 3
       /\ graph[1].text = "digraph G {\n"
       /\ graph[2].text = GRAPHVIZ_GRAPH_SETTINGS
       /\ Lines("settings") = {2}
       /\ \A k \in 1..n :
            /\ graph[2 + k].kind = "node"
            /\ graph[2 + k].to = deps[k].name
            /\ Contains(graph[2 + k].text, " [label=\"" \o deps[k].name \o "\"];\n")
       /\ \A k \in (n + 3)..(m - 1) :
            /\ graph[k].kind = "edge"
            /\ Contains(graph[k].text, " -> ")
       /\ graph[m].text = "}"

C8_Witness ==
  /\ Generated
  /\ Len(deps) = 3
  /\ Cardinality(Lines("edge")) >= 2
  /\ \E k \in 1..2 : deps[k].dependencies # <<>>

\* the original statement of C9: k occurrences of one path make exactly k
\* entries and exactly k edges
C9_PerPathCount ==
  Generated =>
    \A S \in Keys(deps) :
      LET P == matches_of[TextOf(S)]
      IN \A j \in 1..Len(P) :
           LET D == StripSuffix(P[j], ".ts")
           IN D \in Keys(deps) =>
                /\ Count(DictGet(deps, S), D) = Count(P, P[j])
                /\ EdgeCount(S, D) = Count(P, P[j])

(***************************************************************************)
(* C9: nothing is deduplicated: the parser's sequence is the captured      *)
(* paths in source order, each with every '.ts' removed, and for a known   *)
(* service D the graph has as many edges from S's node to D's node as S's  *)
(* file has local imports whose path so reduced is D.                      *)
(***************************************************************************)
C9_NoDedup ==
  Generated =>
    \A S \in Keys(deps) :
      LET P == matches_of[TextOf(S)]
      IN /\ Len(DictGet(deps, S)) = Len(P)
         /\ \A D \in Keys(deps) :
              LET k == Cardinality({j \in 1..Len(P) : Replace(P[j], ".ts", "") = D})
              IN /\ Count(DictGet(deps, S), D) = k
                 /\ EdgeCount(S, D) = k

C9_Witness ==
  /\ Generated
  /\ Keys(deps) = {"a", "b", "c"}
  /\ TextOf("a") = T_dup
  /\ Count(matches_of[T_dup], "c") = 2
  /\ EdgeCount("a", "c") = 2
  /\ EdgeCount("a", "b") = 3

(***************************************************************************)
(* C10: every path resolve_deps opens is the path of an enumerated file,   *)
(* distinct enumerated files have distinct service names, and once         *)
(* resolve_deps has returned every enumerated file has been opened.        *)
(***************************************************************************)
C10_PathsEnumerated ==
  Named =>
    /\ \A k \in 1..Len(opened) : \E f \in Range(ts_files) : opened[k] = PathOf(f)
    /\ \A i, j \in 1..Len(service_names) :
         service_names[i] = service_names[j] => i = j
    /\ Resolved => \A f \in Range(ts_files) : PathOf(f) \in Range(opened)

====
